---- MODULE Spec2Model ----
(***************************************************************************)
(* Crynn: tab / view lifecycle core.                                       *)
(*                                                                         *)
(* One state machine per component of the repository:                      *)
(*   WebContext      (src/unnamed/part_010)            -> SpecPool         *)
(*   TabModel        (src/macos/Core/Models)           -> SpecTabs         *)
(*   tabsStore       (src/src/stores/tabsStore.ts)     -> SpecStore        *)
(*   ContentBlocker  (src/macos/Privacy)               -> SpecBlocker      *)
(*   SessionManager  (src/Crynn/Crynn/Core/Persistence)-> SpecSession      *)
(*   CrynnApp        (TabModel with SessionManager)    -> SpecApp,         *)
(*                                        SpecRestore, SpecShutdown        *)
(*   settingsStore   (src/src/stores/settingsStore.ts) -> SpecSettings     *)
(*   WebContext with ContentBlocker                    -> SpecViews        *)
(*   TabModel field mutators                           -> SpecEdits        *)
(* Every action leaves the variables it does not model unchanged.          *)
(***************************************************************************)
EXTENDS Integers, Sequences, FiniteSets, TLC

(***************************************************************************)
(* Bounds of the model and constants of the program.                       *)
(***************************************************************************)
\* WebContext.maxPoolSize
maxPoolSize == 2
\* number of WKWebView objects the model lets WebContext construct, and
\* number of prewarmIfNeeded calls
MaxHandles == 4
MaxPrewarmCalls == 3
\* longest tab list of the TabModel, and number of tab UUIDs it may draw
MaxTabs == 3
MaxTabIds == 4
\* number of rule compiles the model lets loadRules start
MaxCompiles == 3
\* the quiet interval of scheduleSave (.now() + 0.6), in ticks of 0.2 s
QuietTicks == 3
\* last tick of the clock, and number of scheduleSave calls
MaxTime == 9
MaxSaves == 4
\* tabsStore: ids generateId() may return, tabs Firefox may open, and async
\* calls and timers in flight at one time
MaxIds == 3
MaxFirefoxIds == 2
MaxTasks == 2
\* tabsStore: longest tabs and closedTabs the model lets the store reach
MaxStoreTabs == 2
MaxClosedTabs == 1
MaxLifoClosed == 2
MaxCoordinators == 2
MaxThrottleCalls == 4
MaxSignposts == 4

VARIABLES
    \* ---- WebContext --------------------------------------------------
    prewarmed,      \* WebContext.prewarmed: a handle, or Nil
    reusePool,      \* WebContext.reusePool: sequence of handles
    nextHandle,     \* number of WKWebView objects constructed so far
    bound,          \* handles returned by acquireWebView and not yet released
    lastAcquire,    \* how the last acquireWebView got its handle
    poolMisuse,     \* releaseWebView was called on a handle that is not bound
    doubleBound,    \* acquireWebView returned a handle that was still bound
    prewarmCalls    \* number of prewarmIfNeeded calls so far

VARIABLES
    \* ---- TabModel ----------------------------------------------------
    tabs,           \* TabModel.tabs: sequence of Tab
    activeTabID,    \* TabModel.activeTabID
    nextTabId,      \* number of UUID() values drawn for tabs so far
    tabOp           \* the kind of operation that ran last on the TabModel

VARIABLES
    \* ---- ContentBlocker ----------------------------------------------
    enabled,         \* ContentBlocker.enabled
    disabledHosts,   \* ContentBlocker.disabledHosts
    currentRuleList, \* ContentBlocker.currentRuleList: Nil, or the list compile k produced
    compiling,       \* compiles whose completion handler has not been called yet
    mainQueue,       \* blocks waiting on DispatchQueue.main, oldest first
    issued,          \* number of compiles loadRules has started
    results,         \* results[k]: what compile k delivered ("pending" until it does)
    overlapped,      \* a compile was started while an earlier one was undelivered
    lastToggle       \* the last toggleSite call, if no other call came after it

VARIABLES
    \* ---- SessionManager ----------------------------------------------
    now,             \* the time, in ticks
    workItems,       \* every DispatchWorkItem scheduleSave created, oldest first
    pendingSave      \* SessionManager.pendingSave: index into workItems, or Nil

VARIABLES
    \* ---- tabsStore (zustand) and the Firefox it drives ----------------
    store,           \* the store's state: tabs, activeTabId, closedTabs
    firefox,         \* the tabs Firefox has open, as list_tabs reports them
    tasks,           \* async calls in flight and timers pending, oldest first
    nextId,          \* number of ids generateId() has returned
    nextFirefoxId,   \* number of tabs Firefox has opened
    roundTrip        \* the last closeTab / reopenClosedTab pair being followed

VARIABLES
    \* ---- CrynnApp: TabModel and SessionManager wired together ---------
    terminated,      \* the process has ended
    file,            \* crynn_session.json: Missing, Corrupt, or a Snapshot
    saving,          \* tabs that each running save(from:) has read so far
    restores,        \* number of restoreIfNeeded calls
    changedAt        \* time of the last change of tabs or activeTabID, or Nil

VARIABLES
    \* ---- settingsStore (zustand) and the backend that keeps the settings
    settings,        \* the store's settings: NullSettings, or the keybindings
    backendSettings, \* the settings the backend holds
    settingsTasks    \* loadSettings / saveSettings calls waiting for invoke

VARIABLES
    \* ---- the web views WebContext hands to WebViewContainer ----------
    attached,        \* attached[h]: the rule list in handle h's userContentController, or Nil
    acquired         \* the last acquireWebView call: what it returned and what the blocker held

VARIABLES
    \* ---- WebViewCoordinator, one per tab's WebViewContainer ----------
    coordinators,    \* coordinators[c]: its weak webView is set, isThrottled, and where its view is
    evaluated,       \* the scripts throttle passed to evaluateJavaScript, oldest first
    throttleCalls,   \* number of throttle(active:) calls
    lastThrottle     \* the last throttle(active:) call

VARIABLES
    \* ---- PerformanceTracer and the navigations of each tab's web view -
    navigation,      \* navigation[t]: "idle", "requested" or "provisional"
    signposts,       \* signposts[t]: the signposts emitted with tab t's id, oldest first
    startTimes       \* the keys of PerformanceTracer.startTimes

poolVars == <<prewarmed, reusePool, nextHandle, bound, lastAcquire, poolMisuse, doubleBound, prewarmCalls>>

tabVars == <<tabs, activeTabID, nextTabId, tabOp>>

blockerVars == <<enabled, disabledHosts, currentRuleList, compiling, mainQueue, issued, results, overlapped, lastToggle>>

sessionVars == <<now, workItems, pendingSave>>

storeVars == <<store, firefox, tasks, nextId, nextFirefoxId, roundTrip>>

appVars == <<terminated, file, saving, restores, changedAt>>

settingsVars == <<settings, backendSettings, settingsTasks>>

viewVars == <<attached, acquired>>

throttleVars == <<coordinators, evaluated, throttleCalls, lastThrottle>>

tracerVars == <<navigation, signposts, startTimes>>

vars == <<poolVars, tabVars, blockerVars, sessionVars, storeVars, appVars, settingsVars, viewVars,
          throttleVars, tracerVars>>

\* Swift nil / JavaScript null
Nil == 0

(***************************************************************************)
(* WebContext                                                              *)
(***************************************************************************)
notPoolVars == <<tabVars, blockerVars, sessionVars, storeVars, appVars, settingsVars, viewVars,
    throttleVars, tracerVars>>

InitPool ==
    /\ prewarmed = Nil
    /\ reusePool = <<>>
    /\ nextHandle = 0
    /\ bound = {}
    /\ lastAcquire = "none"
    /\ poolMisuse = FALSE
    /\ doubleBound = FALSE
    /\ prewarmCalls = 0

\* WKWebView(frame:configuration:): a handle no one has seen before
NewWebView == nextHandle + 1

\* Variant of prewarmIfNeeded without its guard: every call constructs
prewarmAlways ==
    /\ prewarmCalls < MaxPrewarmCalls
    /\ prewarmCalls' = prewarmCalls + 1
    /\ nextHandle < MaxHandles
    /\ prewarmed' = NewWebView
    /\ nextHandle' = nextHandle + 1
    /\ UNCHANGED <<reusePool, bound, lastAcquire, poolMisuse, doubleBound>>

prewarmIfNeeded ==
    /\ prewarmCalls < MaxPrewarmCalls
    /\ prewarmCalls' = prewarmCalls + 1
    /\ \/ /\ prewarmed # Nil                    \* guard prewarmed == nil else { return }
          /\ UNCHANGED <<prewarmed, reusePool, nextHandle, bound, lastAcquire, poolMisuse, doubleBound>>
       \/ /\ prewarmed = Nil
          /\ nextHandle < MaxHandles
          /\ prewarmed' = NewWebView
          /\ nextHandle' = nextHandle + 1
          /\ UNCHANGED <<reusePool, bound, lastAcquire, poolMisuse, doubleBound>>

\* The handle acquireWebView takes from the free list and the free list it
\* leaves; the first variant reads the last handle without removing it.
acquirePeeks(pool) == [handle |-> pool[Len(pool)], pool |-> pool]

acquirePops(pool) == [handle |-> pool[Len(pool)], pool |-> SubSeq(pool, 1, Len(pool) - 1)]

acquireWebView ==
    \/ /\ reusePool # <<>>                      \* if let reused = reusePool.popLast()
       /\ LET r == acquirePops(reusePool) IN
            /\ reusePool' = r.pool
            /\ doubleBound' = (doubleBound \/ r.handle \in bound)
            /\ bound' = bound \cup {r.handle}
       /\ lastAcquire' = "reused"
       /\ UNCHANGED <<prewarmed, nextHandle, poolMisuse, prewarmCalls>>
    \/ /\ reusePool = <<>>
       /\ nextHandle < MaxHandles
       /\ nextHandle' = nextHandle + 1
       /\ doubleBound' = (doubleBound \/ NewWebView \in bound)
       /\ bound' = bound \cup {NewWebView}
       /\ lastAcquire' = "new"
       /\ UNCHANGED <<prewarmed, reusePool, poolMisuse, prewarmCalls>>

\* The free list after releaseWebView(webView); the first variant lacks the
\* capacity guard.
releaseUnguarded(pool, webView) == Append(pool, webView)

releasePool(pool, webView) ==
    IF Len(pool) < maxPoolSize THEN Append(pool, webView) ELSE pool

releaseWebView(webView) ==
    /\ reusePool' = releasePool(reusePool, webView)
    /\ poolMisuse' = (poolMisuse \/ webView \notin bound)
    /\ bound' = bound \ {webView}
    /\ UNCHANGED <<prewarmed, nextHandle, lastAcquire, doubleBound, prewarmCalls>>

PrewarmIfNeeded == prewarmIfNeeded /\ UNCHANGED notPoolVars

AcquireWebView == acquireWebView /\ UNCHANGED notPoolVars

ReleaseWebView == (\E h \in 1..nextHandle : releaseWebView(h)) /\ UNCHANGED notPoolVars

NextPool == PrewarmIfNeeded \/ AcquireWebView \/ ReleaseWebView

(***************************************************************************)
(* TabModel and the sidebar that edits it                                  *)
(***************************************************************************)
notTabVars == <<poolVars, blockerVars, sessionVars, storeVars, appVars, settingsVars, viewVars,
    throttleVars, tracerVars>>

\* url strings and titles the user may enter
UrlStrings == {"about:blank", "https://a.com"}

Titles == {"New Tab", "A"}

\* Tab.init(id:urlString:title:isPinned:isReader:) with its default arguments
Tab(id, urlString, title, isPinned) ==
    [id |-> id, urlString |-> urlString, title |-> title, isPinned |-> isPinned, isReader |-> FALSE]

BlankTab(id) == Tab(id, "about:blank", "New Tab", FALSE)

\* UUID(): an id no tab has had before
NewTabId == nextTabId + 1

InitTabs ==
    /\ tabs = <<BlankTab(1)>>                   \* @Published var tabs: [Tab] = [Tab()]
    /\ activeTabID = 1                          \* init(): activeTabID = tabs.first!.id
    /\ nextTabId = 1
    /\ tabOp = "init"

\* tabs.firstIndex(where: { $0.id == id }), Nil when there is none
firstIndex(ts, id) ==
    IF \E i \in 1..Len(ts) : ts[i].id = id
    THEN CHOOSE i \in 1..Len(ts) : ts[i].id = id /\ \A j \in 1..(i - 1) : ts[j].id # id
    ELSE Nil

activeIndex == firstIndex(tabs, activeTabID)

\* Array.remove(at:) and Array.insert(_:at:), with 1-based positions
RemoveAt(ts, i) == SubSeq(ts, 1, i - 1) \o SubSeq(ts, i + 1, Len(ts))

InsertAt(ts, i, t) == SubSeq(ts, 1, i - 1) \o <<t>> \o SubSeq(ts, i, Len(ts))

Min(a, b) == IF a <= b THEN a ELSE b

newTab(urlString, switchTo) ==
    /\ Len(tabs) < MaxTabs
    /\ nextTabId < MaxTabIds
    /\ tabs' = Append(tabs, Tab(NewTabId, urlString, "New Tab", FALSE))
    /\ nextTabId' = nextTabId + 1
    /\ activeTabID' = IF switchTo THEN NewTabId ELSE activeTabID
    /\ tabOp' = "newTab"

\* Variant of duplicateActive that appends the copy at the end of the list
duplicateAtEnd(ts, active, fresh) ==
    LET idx == firstIndex(ts, active) IN
    IF idx = Nil
    THEN [tabs |-> ts, activeTabID |-> active, drew |-> FALSE]
    ELSE [tabs |-> Append(ts, Tab(fresh, ts[idx].urlString, ts[idx].title, ts[idx].isPinned)),
          activeTabID |-> fresh, drew |-> TRUE]

\* tabs and activeTabID after duplicateActive(); fresh is the id UUID() gives
duplicateActiveResult(ts, active, fresh) ==
    LET idx == firstIndex(ts, active) IN
    IF idx = Nil
    THEN [tabs |-> ts, activeTabID |-> active, drew |-> FALSE]
    ELSE [tabs |-> InsertAt(ts, idx + 1, Tab(fresh, ts[idx].urlString, ts[idx].title, ts[idx].isPinned)),
          activeTabID |-> fresh, drew |-> TRUE]

duplicateActive ==
    LET r == duplicateActiveResult(tabs, activeTabID, NewTabId) IN
    /\ Len(tabs) < MaxTabs
    /\ nextTabId < MaxTabIds
    /\ tabs' = r.tabs
    /\ activeTabID' = r.activeTabID
    /\ nextTabId' = IF r.drew THEN nextTabId + 1 ELSE nextTabId
    /\ tabOp' = "duplicateActive"

\* Variants of closeActiveTab that differ from the code in one decision: the
\* active id is not reassigned, an emptied list is not refilled, the previous
\* tab is selected instead of the next.
closeKeepsActive(ts, active, fresh) ==
    LET idx == firstIndex(ts, active) IN
    IF idx = Nil THEN [tabs |-> ts, activeTabID |-> active, drew |-> FALSE]
    ELSE LET rest == RemoveAt(ts, idx) IN
         IF rest = <<>> THEN [tabs |-> <<BlankTab(fresh)>>, activeTabID |-> fresh, drew |-> TRUE]
         ELSE [tabs |-> rest, activeTabID |-> active, drew |-> FALSE]

closeLeavesEmpty(ts, active, fresh) ==
    LET idx == firstIndex(ts, active) IN
    IF idx = Nil THEN [tabs |-> ts, activeTabID |-> active, drew |-> FALSE]
    ELSE LET rest == RemoveAt(ts, idx) IN
         IF rest = <<>> THEN [tabs |-> rest, activeTabID |-> active, drew |-> FALSE]
         ELSE [tabs |-> rest, activeTabID |-> rest[Min(idx, Len(rest))].id, drew |-> FALSE]

closeSelectsPrevious(ts, active, fresh) ==
    LET idx == firstIndex(ts, active) IN
    IF idx = Nil THEN [tabs |-> ts, activeTabID |-> active, drew |-> FALSE]
    ELSE LET rest == RemoveAt(ts, idx) IN
         IF rest = <<>> THEN [tabs |-> <<BlankTab(fresh)>>, activeTabID |-> fresh, drew |-> TRUE]
         ELSE [tabs |-> rest, activeTabID |-> rest[IF idx > 1 THEN idx - 1 ELSE 1].id, drew |-> FALSE]

\* tabs and activeTabID after closeActiveTab(); fresh is the id UUID() gives.
\* Swift's tabs[min(idx, tabs.count - 1)] with 0-based idx is rest[Min(idx, Len(rest))]
\* with the 1-based idx used here.
closeActiveTabResult(ts, active, fresh) ==
    LET idx == firstIndex(ts, active) IN
    IF idx = Nil THEN [tabs |-> ts, activeTabID |-> active, drew |-> FALSE]
    ELSE LET rest == RemoveAt(ts, idx) IN
         IF rest = <<>> THEN [tabs |-> <<BlankTab(fresh)>>, activeTabID |-> fresh, drew |-> TRUE]
         ELSE [tabs |-> rest, activeTabID |-> rest[Min(idx, Len(rest))].id, drew |-> FALSE]

closeActiveTab ==
    LET r == closeActiveTabResult(tabs, activeTabID, NewTabId) IN
    /\ Len(tabs) = 1 => nextTabId < MaxTabIds
    /\ tabs' = r.tabs
    /\ activeTabID' = r.activeTabID
    /\ nextTabId' = IF r.drew THEN nextTabId + 1 ELSE nextTabId
    /\ tabOp' = IF Len(tabs) = 1 THEN "closeOnlyTab" ELSE "closeActiveTab"

\* The four field mutators: guard let idx = firstIndex(where: id) else { return }
setURL(urlString, id) ==
    LET idx == firstIndex(tabs, id) IN
    /\ tabs' = IF idx = Nil THEN tabs ELSE [tabs EXCEPT ![idx].urlString = urlString]
    /\ tabOp' = "edit"
    /\ UNCHANGED <<activeTabID, nextTabId>>

setTitle(title, id) ==
    LET idx == firstIndex(tabs, id) IN
    /\ tabs' = IF idx = Nil THEN tabs ELSE [tabs EXCEPT ![idx].title = title]
    /\ tabOp' = "edit"
    /\ UNCHANGED <<activeTabID, nextTabId>>

\* Variant of togglePinned that toggles the active tab, whatever id names
togglePinnedOfActive(id) ==
    LET idx == activeIndex IN
    /\ tabs' = IF idx = Nil THEN tabs ELSE [tabs EXCEPT ![idx].isPinned = ~@]
    /\ tabOp' = "edit"
    /\ UNCHANGED <<activeTabID, nextTabId>>

togglePinned(id) ==
    LET idx == firstIndex(tabs, id) IN
    /\ tabs' = IF idx = Nil THEN tabs ELSE [tabs EXCEPT ![idx].isPinned = ~@]
    /\ tabOp' = "edit"
    /\ UNCHANGED <<activeTabID, nextTabId>>

toggleReader(id) ==
    LET idx == firstIndex(tabs, id) IN
    /\ tabs' = IF idx = Nil THEN tabs ELSE [tabs EXCEPT ![idx].isReader = ~@]
    /\ tabOp' = "edit"
    /\ UNCHANGED <<activeTabID, nextTabId>>

\* SidebarTabs: List(selection:) sets activeTabID to the tag of a listed row
sidebarSelect(i) ==
    /\ activeTabID' = tabs[i].id
    /\ tabOp' = "select"
    /\ UNCHANGED <<tabs, nextTabId>>

\* SidebarTabs context menu "Close" of row i: closeActiveTab() for the active
\* tab, else tabs.tabs.remove(at:) of the first tab equal to the row's tab
sidebarCloseResult(ts, active, i) ==
    LET tab == ts[i]
        idx == IF \E k \in 1..Len(ts) : ts[k] = tab
               THEN CHOOSE k \in 1..Len(ts) : ts[k] = tab /\ \A j \in 1..(k - 1) : ts[j] # tab
               ELSE Nil
    IN  IF idx = Nil THEN ts ELSE RemoveAt(ts, idx)

sidebarClose(i) ==
    IF activeTabID = tabs[i].id
    THEN closeActiveTab
    ELSE /\ tabs' = sidebarCloseResult(tabs, activeTabID, i)
         /\ tabOp' = "sidebarClose"
         /\ UNCHANGED <<activeTabID, nextTabId>>

\* SidebarTabs context menu "Duplicate" of row i
sidebarDuplicate(i) ==
    LET r == duplicateActiveResult(tabs, tabs[i].id, NewTabId) IN
    /\ Len(tabs) < MaxTabs
    /\ nextTabId < MaxTabIds
    /\ tabs' = r.tabs
    /\ activeTabID' = r.activeTabID
    /\ nextTabId' = IF r.drew THEN nextTabId + 1 ELSE nextTabId
    /\ tabOp' = "duplicateActive"

\* ids a caller may pass: those of the tabs, and one id that no tab has
TabIdArgs == {tabs[i].id : i \in 1..Len(tabs)} \cup {NewTabId}

NewTab == (\E u \in UrlStrings, s \in BOOLEAN : newTab(u, s)) /\ UNCHANGED notTabVars

DuplicateActive == duplicateActive /\ UNCHANGED notTabVars

CloseActiveTab == closeActiveTab /\ UNCHANGED notTabVars

SetURL == (\E u \in UrlStrings, id \in TabIdArgs : setURL(u, id)) /\ UNCHANGED notTabVars

SetTitle == (\E t \in Titles, id \in TabIdArgs : setTitle(t, id)) /\ UNCHANGED notTabVars

TogglePinned == (\E id \in TabIdArgs : togglePinned(id)) /\ UNCHANGED notTabVars

ToggleReader == (\E id \in TabIdArgs : toggleReader(id)) /\ UNCHANGED notTabVars

SidebarSelect == (\E i \in 1..Len(tabs) : sidebarSelect(i)) /\ UNCHANGED notTabVars

SidebarClose == (\E i \in 1..Len(tabs) : sidebarClose(i)) /\ UNCHANGED notTabVars

SidebarDuplicate == (\E i \in 1..Len(tabs) : sidebarDuplicate(i)) /\ UNCHANGED notTabVars

NextTabs ==
    \/ NewTab \/ DuplicateActive \/ CloseActiveTab
    \/ SetURL \/ SetTitle \/ TogglePinned \/ ToggleReader
    \/ SidebarSelect \/ SidebarClose \/ SidebarDuplicate

\* the field mutators alone, on the tab lists of up to MaxEditTabs tabs that
\* newTab builds
MaxEditTabs == 2

EditNewTab == Len(tabs) < MaxEditTabs /\ NewTab

NextEdits == EditNewTab \/ SetURL \/ SetTitle \/ TogglePinned \/ ToggleReader

\* duplicateActive on the lists that newTab, the mutators and the sidebar's
\* selection build
NextDuplicate == EditNewTab \/ SetURL \/ TogglePinned \/ SidebarSelect \/ DuplicateActive

(***************************************************************************)
(* ContentBlocker                                                          *)
(*                                                                         *)
(* loadRules hands the rules to WKContentRuleListStore; the store calls    *)
(* the completion handler later, with a list or with nil (the compile      *)
(* failed), in an order the store chooses; the handler queues a block on   *)
(* the main queue, and the main queue runs its blocks in FIFO order.       *)
(***************************************************************************)
notBlockerVars == <<poolVars, tabVars, sessionVars, storeVars, appVars, settingsVars, viewVars,
    throttleVars, tracerVars>>

\* host arguments: Optional<String>, in either letter case, or empty
NilHost == "<nil>"

HostArgs == {NilHost, "", "a.com", "A.com", "b.com"}

\* String.lowercased() on the hosts above
lowercased(h) == IF h = "A.com" THEN "a.com" ELSE h

\* what loadRules() does to currentRuleList, compiling and the counters
loadRules ==
    IF ~enabled'
    THEN /\ currentRuleList' = Nil              \* guard enabled else { currentRuleList = nil; return }
         /\ UNCHANGED <<compiling, issued, results, overlapped>>
    ELSE /\ issued' = issued + 1                \* store.compileContentRuleList(...)
         /\ compiling' = compiling \cup {issued + 1}
         /\ results' = Append(results, "pending")
         /\ overlapped' = (overlapped \/ compiling # {} \/ mainQueue # <<>>)
         /\ UNCHANGED currentRuleList

InitBlocker ==
    /\ enabled = TRUE
    /\ disabledHosts = {}
    /\ currentRuleList = Nil
    /\ compiling = {1}                          \* init() { loadRules() }
    /\ mainQueue = <<>>
    /\ issued = 1
    /\ results = <<"pending">>
    /\ overlapped = FALSE
    /\ lastToggle = [kind |-> "none"]

\* the Settings toggle flips enabled; didSet { loadRules() }
setEnabled(b) ==
    /\ b = TRUE => issued < MaxCompiles
    /\ enabled' = b
    /\ loadRules
    /\ lastToggle' = [kind |-> "none"]
    /\ UNCHANGED <<disabledHosts, mainQueue>>

\* the completion handler of compile k: DispatchQueue.main.async { ... }
compileCompletion(k, list) ==
    /\ k \in compiling
    /\ compiling' = compiling \ {k}
    /\ mainQueue' = Append(mainQueue, [compile |-> k, list |-> list])
    /\ results' = [results EXCEPT ![k] = list]
    /\ UNCHANGED <<enabled, disabledHosts, currentRuleList, issued, overlapped, lastToggle>>

\* the value the queued block stores in currentRuleList
assignedRuleList(old, block) == block.list       \* self?.currentRuleList = list

mainQueueRuns ==
    /\ mainQueue # <<>>
    /\ currentRuleList' = assignedRuleList(currentRuleList, Head(mainQueue))
    /\ mainQueue' = Tail(mainQueue)
    /\ UNCHANGED <<enabled, disabledHosts, compiling, issued, results, overlapped, lastToggle>>

\* Variant of isEnabled that compares hosts without lowercasing them
isEnabledCaseSensitive(host) ==
    IF ~enabled THEN FALSE
    ELSE IF host = NilHost THEN TRUE
    ELSE host \notin disabledHosts

isEnabled(host) ==
    IF ~enabled THEN FALSE
    ELSE IF host = NilHost THEN TRUE
    ELSE lowercased(host) \notin disabledHosts

\* Variant of toggleSite that compares hosts without lowercasing them
toggledCaseSensitive(hosts, host) ==
    IF host = NilHost \/ host = "" THEN hosts
    ELSE IF host \in hosts THEN hosts \ {host}
    ELSE hosts \cup {host}

\* disabledHosts after toggleSite(host:)
toggledHosts(hosts, host) ==
    IF host = NilHost \/ lowercased(host) = "" THEN hosts
    ELSE IF lowercased(host) \in hosts THEN hosts \ {lowercased(host)}
    ELSE hosts \cup {lowercased(host)}

toggleSite(host) ==
    /\ disabledHosts' = toggledHosts(disabledHosts, host)
    /\ lastToggle' = [kind |-> "toggle", host |-> host, before |-> disabledHosts,
                      was |-> isEnabled(host),
                      prevHost |-> IF lastToggle.kind = "toggle" THEN lastToggle.host ELSE "<none>"]
    /\ UNCHANGED <<enabled, currentRuleList, compiling, mainQueue, issued, results, overlapped>>

SetEnabled == setEnabled(~enabled) /\ UNCHANGED notBlockerVars

CompileSucceeds == (\E k \in compiling : compileCompletion(k, k)) /\ UNCHANGED notBlockerVars

CompileFails == (\E k \in compiling : compileCompletion(k, Nil)) /\ UNCHANGED notBlockerVars

MainQueueRuns == mainQueueRuns /\ UNCHANGED notBlockerVars

ToggleSite == (\E h \in HostArgs : toggleSite(h)) /\ UNCHANGED notBlockerVars

NextBlocker == SetEnabled \/ CompileSucceeds \/ CompileFails \/ MainQueueRuns \/ ToggleSite

(***************************************************************************)
(* SessionManager                                                          *)
(*                                                                         *)
(* Time is counted in ticks.  asyncAfter(deadline:) starts a work item at  *)
(* its deadline: the clock does not pass the deadline of an item that has  *)
(* not been started.  Starting a cancelled DispatchWorkItem returns at     *)
(* once; cancel() on an item whose block already runs does not stop it.    *)
(***************************************************************************)
notSessionVars == <<poolVars, tabVars, blockerVars, storeVars, appVars, settingsVars, viewVars,
    throttleVars, tracerVars>>

InitSession ==
    /\ now = 0
    /\ workItems = <<>>
    /\ pendingSave = Nil

\* workItems after pendingSave?.cancel(); the first variant cancels nothing
cancelNothing(items, pending) == items

cancelPending(items, pending) ==
    IF pending = Nil THEN items ELSE [items EXCEPT ![pending].cancelled = TRUE]

scheduleSave ==
    /\ Len(workItems) < MaxSaves
    /\ workItems' = Append(cancelPending(workItems, pendingSave),
                           [scheduledAt |-> now, deadline |-> now + QuietTicks,
                            cancelled |-> FALSE, state |-> "scheduled", startedAt |-> Nil])
    /\ pendingSave' = Len(workItems) + 1
    /\ UNCHANGED now

\* the global queue starts work item i at its deadline
workItemStarts(i) ==
    /\ workItems[i].state = "scheduled"
    /\ workItems[i].deadline = now
    /\ workItems' = [workItems EXCEPT ![i].state = IF workItems[i].cancelled THEN "skipped" ELSE "running",
                                      ![i].startedAt = IF workItems[i].cancelled THEN Nil ELSE now]
    /\ UNCHANGED <<now, pendingSave>>

\* save(from:) of work item i finishes: data.write(to: url, options: .atomic)
saveWrites(i) ==
    /\ workItems[i].state = "running"
    /\ workItems' = [workItems EXCEPT ![i].state = "written"]
    /\ UNCHANGED <<now, pendingSave>>

tick ==
    /\ now < MaxTime
    /\ \A i \in 1..Len(workItems) : workItems[i].state = "scheduled" => workItems[i].deadline > now
    /\ now' = now + 1
    /\ UNCHANGED <<workItems, pendingSave>>

\* the block of work item it has been entered: save(from:) runs or has run
Executed(it) == it.state \in {"running", "written"}

ScheduleSave == scheduleSave /\ UNCHANGED notSessionVars

WorkItemStarts == (\E i \in 1..Len(workItems) : workItemStarts(i)) /\ UNCHANGED notSessionVars

SaveWrites == (\E i \in 1..Len(workItems) : saveWrites(i)) /\ UNCHANGED notSessionVars

Tick == tick /\ UNCHANGED notSessionVars

NextSession == ScheduleSave \/ WorkItemStarts \/ SaveWrites \/ Tick

(***************************************************************************)
(* tabsStore                                                               *)
(*                                                                         *)
(* JavaScript runs one callback at a time, so every action below is the    *)
(* code between two awaits.  A task is an async call that is waiting for   *)
(* the backend (invoke), or a setTimeout that has not fired.  The backend  *)
(* commands open_tab, close_tab and list_tabs act on `firefox`; each of    *)
(* them may also fail (the invoke rejects).  Of a Tab the model keeps id,  *)
(* firefoxId, url and pinned; title, muted, audible and groupId are        *)
(* carried along by the code in the same way and are left out.             *)
(***************************************************************************)
notStoreVars == <<poolVars, tabVars, blockerVars, sessionVars, appVars, settingsVars, viewVars,
    throttleVars, tracerVars>>

Urls == {"about:blank", "https://a.com"}

\* ids of Firefox tabs are kept apart from the ids generateId() returns
FirefoxIdBase == 100

InitStore ==
    /\ store = [tabs |-> <<>>, activeTabId |-> Nil, closedTabs |-> <<>>]
    /\ firefox = <<>>
    /\ tasks = <<>>
    /\ nextId = 0
    /\ nextFirefoxId = 0
    /\ roundTrip = [phase |-> "idle"]

Last(seq) == seq[Len(seq)]

WithoutTask(i) == SubSeq(tasks, 1, i - 1) \o SubSeq(tasks, i + 1, Len(tasks))

StoreTabIds == {store.tabs[i].id : i \in 1..Len(store.tabs)}

\* a user action other than the closeTab / reopenClosedTab pair ends the
\* round trip that is being followed
Unfollow == roundTrip' = [phase |-> "idle"]

\* addTab(url), up to its await of open_tab; after names the caller's
\* continuation: reopenClosedTab's .then(...) or none
addTabCalled(url, after) ==
    /\ Len(tasks) < MaxTasks
    /\ tasks' = Append(tasks, [kind |-> "addTab", url |-> url, after |-> after])

\* reopenClosedTab's .then: updateTab(state.tabs[state.tabs.length - 1].id,
\* { firefoxId: tab.firefoxId }) with the state read before the reopen; with
\* no tab in that state the callback throws and changes nothing
afterAddTab(ts, after) ==
    IF after.name = "reopen" /\ after.target # Nil
    THEN [i \in 1..Len(ts) |-> IF ts[i].id = after.target
                               THEN [ts[i] EXCEPT !.firefoxId = after.firefoxId] ELSE ts[i]]
    ELSE ts

\* open_tab succeeds: Firefox has the new tab, the store appends its Tab and
\* makes it active, and the sync timer (setTimeout 1000) is set
addTabOpens(i) ==
    /\ tasks[i].kind = "addTab"
    /\ Len(store.tabs) < MaxStoreTabs
    /\ nextFirefoxId < MaxFirefoxIds
    /\ nextId < MaxIds
    /\ LET t == tasks[i]
           fid == FirefoxIdBase + nextFirefoxId + 1
           created == [id |-> nextId + 1, firefoxId |-> fid, url |-> t.url, pinned |-> FALSE]
       IN  /\ firefox' = Append(firefox, [id |-> fid, url |-> t.url])
           /\ store' = [store EXCEPT !.tabs = afterAddTab(Append(store.tabs, created), t.after),
                                     !.activeTabId = created.id]
           /\ tasks' = Append(WithoutTask(i), [kind |-> "syncTimer"])
    /\ nextFirefoxId' = nextFirefoxId + 1
    /\ nextId' = nextId + 1
    /\ UNCHANGED roundTrip

\* open_tab fails: the catch block still creates a local tab, whose firefoxId
\* is a second generateId()
addTabFails(i) ==
    /\ tasks[i].kind = "addTab"
    /\ Len(store.tabs) < MaxStoreTabs
    /\ nextId + 1 < MaxIds
    /\ LET t == tasks[i]
           created == [id |-> nextId + 1, firefoxId |-> nextId + 2, url |-> t.url, pinned |-> FALSE]
       IN  /\ store' = [store EXCEPT !.tabs = afterAddTab(Append(store.tabs, created), t.after),
                                     !.activeTabId = created.id]
           /\ tasks' = WithoutTask(i)
    /\ nextId' = nextId + 2
    /\ UNCHANGED <<firefox, nextFirefoxId, roundTrip>>

\* closeTab(id), up to its await of close_tab: state = get() and the tab
\* found in it are kept for the code after the await
closeTabCalled(id) ==
    /\ Len(tasks) < MaxTasks
    /\ \E k \in 1..Len(store.tabs) : store.tabs[k].id = id     \* if (!tab) return
    /\ LET k == CHOOSE k \in 1..Len(store.tabs) :          \* state.tabs.find(...)
                    /\ store.tabs[k].id = id
                    /\ \A j \in 1..(k - 1) : store.tabs[j].id # id
       IN  tasks' = Append(tasks, [kind |-> "closeTab", id |-> id, tab |-> store.tabs[k], state |-> store])
    /\ UNCHANGED <<store, firefox, nextId, nextFirefoxId>>

\* the state closeTab sets after the await, from the state it read before it
closedState(state, id, tab) ==
    LET newTabs == SelectSeq(state.tabs, LAMBDA t : t.id # id)
    IN  [tabs |-> newTabs,
         closedTabs |-> Append(state.closedTabs, tab),
         activeTabId |-> IF state.activeTabId = id
                         THEN IF Len(newTabs) > 0 THEN Last(newTabs).id ELSE Nil
                         ELSE state.activeTabId]

\* close_tab returns (Firefox closed the tab) or fails (it did not); the tab
\* is closed locally either way
closeTabReturns(i, closedInFirefox) ==
    /\ tasks[i].kind = "closeTab"
    /\ LET t == tasks[i] IN
        /\ firefox' = IF closedInFirefox
                      THEN SelectSeq(firefox, LAMBDA ft : ft.id # t.tab.firefoxId)
                      ELSE firefox
        /\ store' = closedState(t.state, t.id, t.tab)
        /\ tasks' = WithoutTask(i)
        /\ roundTrip' = IF Len(tasks) = 1 /\ t.state = store
                        THEN [phase |-> "closed", url |-> t.tab.url, pinned |-> t.tab.pinned]
                        ELSE [phase |-> "idle"]
    /\ UNCHANGED <<nextId, nextFirefoxId>>

\* updateTab(id, updates), here for pinTab / unpinTab
updateTab(ts, id, pinned) ==
    [i \in 1..Len(ts) |-> IF ts[i].id = id THEN [ts[i] EXCEPT !.pinned = pinned] ELSE ts[i]]

setPinned(id, pinned) ==
    /\ store' = [store EXCEPT !.tabs = updateTab(store.tabs, id, pinned)]
    /\ UNCHANGED <<firefox, tasks, nextId, nextFirefoxId>>

setActiveTab(id) ==
    /\ store' = [store EXCEPT !.activeTabId = id]
    /\ UNCHANGED <<firefox, tasks, nextId, nextFirefoxId>>

\* reopenClosedTab taking the oldest closed tab instead of the latest
reopenOldest ==
    /\ store.closedTabs # <<>>
    /\ Len(store.tabs) < MaxStoreTabs
    /\ LET tab == Head(store.closedTabs)
           target == IF store.tabs = <<>> THEN Nil ELSE Last(store.tabs).id
       IN  /\ store' = [tabs |-> Append(store.tabs, tab),
                        closedTabs |-> Tail(store.closedTabs),
                        activeTabId |-> tab.id]
           /\ addTabCalled(tab.url, [name |-> "reopen", target |-> target, firefoxId |-> tab.firefoxId])
    /\ UNCHANGED <<firefox, nextId, nextFirefoxId>>

\* reopenClosedTab: the synchronous part, then get().addTab(tab.url).then(...)
reopenClosedTab ==
    /\ store.closedTabs # <<>>                  \* if (closedTabs.length === 0) return
    /\ Len(store.tabs) < MaxStoreTabs
    /\ LET tab == Last(store.closedTabs)
           target == IF store.tabs = <<>> THEN Nil ELSE Last(store.tabs).id
       IN  /\ store' = [tabs |-> Append(store.tabs, tab),
                        closedTabs |-> SubSeq(store.closedTabs, 1, Len(store.closedTabs) - 1),
                        activeTabId |-> tab.id]
           /\ addTabCalled(tab.url, [name |-> "reopen", target |-> target, firefoxId |-> tab.firefoxId])
    /\ UNCHANGED <<firefox, nextId, nextFirefoxId>>

\* syncWithFirefox, up to its await of list_tabs; the backend's answer is the
\* list Firefox has at the call
syncCalled(rest) ==
    tasks' = Append(rest, [kind |-> "sync", firefoxTabs |-> firefox])

\* the tabs syncWithFirefox sets: one per Firefox tab, the store's tab of the
\* same firefoxId updated, or a new Tab whose id is fresh
syncedTabs(ts, firefoxTabs, firstFresh) ==
    LET Known(ft) == \E k \in 1..Len(ts) : ts[k].firefoxId = ft.id
        \* new Map(...): of two tabs with one firefoxId the later one is kept
        Existing(ft) == ts[CHOOSE k \in 1..Len(ts) :
                              /\ ts[k].firefoxId = ft.id
                              /\ \A j \in (k + 1)..Len(ts) : ts[j].firefoxId # ft.id]
        NewBefore(i) == Cardinality({j \in 1..(i - 1) : ~Known(firefoxTabs[j])})
    IN  [i \in 1..Len(firefoxTabs) |->
            IF Known(firefoxTabs[i])
            THEN [Existing(firefoxTabs[i]) EXCEPT !.url = firefoxTabs[i].url]
            ELSE [id |-> firstFresh + NewBefore(i), firefoxId |-> firefoxTabs[i].id,
                  url |-> firefoxTabs[i].url, pinned |-> FALSE]]

NewInSync(ts, firefoxTabs) ==
    Cardinality({j \in 1..Len(firefoxTabs) : \A k \in 1..Len(ts) : ts[k].firefoxId # firefoxTabs[j].id})

\* list_tabs returned: set({ tabs: filteredTabs })
syncApplies(i) ==
    /\ tasks[i].kind = "sync"
    /\ Len(tasks[i].firefoxTabs) <= MaxStoreTabs
    /\ nextId + NewInSync(store.tabs, tasks[i].firefoxTabs) <= MaxIds
    /\ store' = [store EXCEPT !.tabs = syncedTabs(store.tabs, tasks[i].firefoxTabs, nextId + 1)]
    /\ nextId' = nextId + NewInSync(store.tabs, tasks[i].firefoxTabs)
    /\ tasks' = WithoutTask(i)
    /\ UNCHANGED <<firefox, nextFirefoxId, roundTrip>>

\* list_tabs failed: the catch block logs, nothing is set
syncFails(i) ==
    /\ tasks[i].kind = "sync"
    /\ tasks' = WithoutTask(i)
    /\ UNCHANGED <<store, firefox, nextId, nextFirefoxId, roundTrip>>

\* the timer addTab set fires: get().syncWithFirefox()
syncTimerFires(i) ==
    /\ tasks[i].kind = "syncTimer"
    /\ syncCalled(WithoutTask(i))
    /\ UNCHANGED <<store, firefox, nextId, nextFirefoxId, roundTrip>>

AddTab ==
    /\ \E u \in Urls : addTabCalled(u, [name |-> "none"])
    /\ Unfollow
    /\ UNCHANGED <<store, firefox, nextId, nextFirefoxId>>
    /\ UNCHANGED notStoreVars

\* duplicateTab(id): await get().addTab(tab.url) for a tab of the list
DuplicateTab ==
    /\ \E k \in 1..Len(store.tabs) : addTabCalled(store.tabs[k].url, [name |-> "none"])
    /\ Unfollow
    /\ UNCHANGED <<store, firefox, nextId, nextFirefoxId>>
    /\ UNCHANGED notStoreVars

AddTabOpens == (\E i \in 1..Len(tasks) : addTabOpens(i)) /\ UNCHANGED notStoreVars

AddTabFails == (\E i \in 1..Len(tasks) : addTabFails(i)) /\ UNCHANGED notStoreVars

CloseTab ==
    /\ Len(store.closedTabs) < MaxClosedTabs
    /\ \E id \in StoreTabIds : closeTabCalled(id)
    /\ UNCHANGED roundTrip
    /\ UNCHANGED notStoreVars

\* closeTab for a store that keeps up to MaxLifoClosed closed tabs
LifoCloseTab ==
    /\ Len(store.closedTabs) < MaxLifoClosed
    /\ \E id \in StoreTabIds : closeTabCalled(id)
    /\ UNCHANGED roundTrip
    /\ UNCHANGED notStoreVars

CloseTabReturns ==
    (\E i \in 1..Len(tasks), ok \in BOOLEAN : closeTabReturns(i, ok)) /\ UNCHANGED notStoreVars

\* the tab list calls setActiveTab, pinTab and unpinTab with the id of a listed tab
SetActiveTab == (\E id \in StoreTabIds : setActiveTab(id)) /\ Unfollow /\ UNCHANGED notStoreVars

PinTab == (\E id \in StoreTabIds, b \in BOOLEAN : setPinned(id, b)) /\ Unfollow /\ UNCHANGED notStoreVars

ReopenClosedTab ==
    /\ reopenClosedTab
    /\ roundTrip' = IF roundTrip.phase = "closed"
                    THEN [phase |-> "reopened", url |-> roundTrip.url, pinned |-> roundTrip.pinned,
                          tabsBefore |-> Len(store.tabs), closedBefore |-> Len(store.closedTabs)]
                    ELSE [phase |-> "idle"]
    /\ UNCHANGED notStoreVars

SyncWithFirefox ==
    /\ Len(tasks) < MaxTasks
    /\ syncCalled(tasks)
    /\ Unfollow
    /\ UNCHANGED <<store, firefox, nextId, nextFirefoxId>>
    /\ UNCHANGED notStoreVars

SyncTimerFires == (\E i \in 1..Len(tasks) : syncTimerFires(i)) /\ UNCHANGED notStoreVars

SyncApplies == (\E i \in 1..Len(tasks) : syncApplies(i)) /\ UNCHANGED notStoreVars

SyncFails == (\E i \in 1..Len(tasks) : syncFails(i)) /\ UNCHANGED notStoreVars

\* the store's tab operations with room for MaxLifoClosed closed tabs
NextLifo ==
    \/ AddTab \/ AddTabOpens \/ AddTabFails
    \/ LifoCloseTab \/ CloseTabReturns \/ SetActiveTab \/ ReopenClosedTab
    \/ SyncTimerFires \/ SyncApplies \/ SyncFails

NextStore ==
    \/ AddTab \/ DuplicateTab \/ AddTabOpens \/ AddTabFails
    \/ CloseTab \/ CloseTabReturns \/ SetActiveTab \/ PinTab \/ ReopenClosedTab
    \/ SyncWithFirefox \/ SyncTimerFires \/ SyncApplies \/ SyncFails

(***************************************************************************)
(* CrynnApp: the TabModel and the SessionManager wired together            *)
(*                                                                         *)
(* .onChange(of: tabModel.tabs) calls scheduleSave after every handler     *)
(* that changed tabs; .onAppear calls restoreIfNeeded.  save(from:) runs   *)
(* on a global queue: it reads model.tabs, then model.activeTabID, then    *)
(* encodes and writes, and the main thread may run handlers between the    *)
(* two reads.  CrynnApp registers no handler for the end of the process.   *)
(***************************************************************************)
notAppVars == <<poolVars, blockerVars, storeVars, settingsVars, viewVars,
    throttleVars, tracerVars>>

\* number of times the window appears (.onAppear), and number of changes of
\* tabs (each of them schedules a save) while the app runs
MaxRestores == 2

MaxAppSaves == 2

\* the id of a tab that an earlier run of the program saved
SavedTabId == 10

\* changedAt before the first change
NoChange == Nil - 1

\* contents of crynn_session.json
Missing == [kind |-> "missing"]

Corrupt == [kind |-> "corrupt"]

\* Snapshot(tabs:active:), encoded
Snapshot(ts, active) == [kind |-> "snapshot", tabs |-> ts, active |-> active]

\* what the file may hold when the program starts

InitApp ==
    /\ terminated = FALSE
    /\ file \in {Missing, Corrupt, Snapshot(<<Tab(SavedTabId, "https://a.com", "A", TRUE)>>, SavedTabId)}
    /\ saving = {}
    /\ restores = <<>>
    /\ changedAt = NoChange

\* .onChange(of: tabModel.tabs) { _ in session.scheduleSave(from: tabModel) }
onChange == IF tabs' # tabs THEN scheduleSave ELSE UNCHANGED sessionVars

\* what follows a handler of the main thread that edits the TabModel
afterEdit ==
    /\ tabs' # tabs => Len(workItems) < MaxAppSaves
    /\ onChange
    /\ changedAt' = IF tabs' # tabs \/ activeTabID' # activeTabID THEN now ELSE changedAt
    /\ UNCHANGED <<terminated, file, saving>>

\* Variant of restoreIfNeeded that replaces tabs and keeps activeTabID
restoreKeepsActive(f, ts, active) ==
    IF f.kind = "snapshot" THEN [tabs |-> f.tabs, activeTabID |-> active, outcome |-> "replaced"]
    ELSE [tabs |-> ts, activeTabID |-> active, outcome |-> "kept"]

\* tabs and activeTabID after restoreIfNeeded(into:), the file holding f:
\* guard let data = try? Data(contentsOf: url), let snapshot = try? decode(...) else { return }
restoredModel(f, ts, active) ==
    IF f.kind = "snapshot" THEN [tabs |-> f.tabs, activeTabID |-> f.active, outcome |-> "replaced"]
    ELSE [tabs |-> ts, activeTabID |-> active, outcome |-> "kept"]

restoreIfNeeded ==
    LET r == restoredModel(file, tabs, activeTabID) IN
    /\ Len(restores) < MaxRestores
    /\ tabs' = r.tabs
    /\ activeTabID' = r.activeTabID
    /\ restores' = Append(restores, r.outcome)
    /\ tabOp' = "restore"
    /\ UNCHANGED nextTabId

\* the global queue starts work item i; save(from:) reads model.tabs
saveReadsTabs(i) ==
    /\ workItemStarts(i)
    /\ saving' = IF workItems'[i].state = "running"
                 THEN saving \cup {[item |-> i, tabs |-> tabs]} ELSE saving
    /\ UNCHANGED <<terminated, file, restores, changedAt>>

\* save(from:) of work item i reads model.activeTabID, encodes and writes
saveWritesFile(i) ==
    /\ saveWrites(i)
    /\ \E s \in saving :
          /\ s.item = i
          /\ file' = Snapshot(s.tabs, activeTabID)
          /\ saving' = saving \ {s}
    /\ UNCHANGED <<terminated, restores, changedAt>>

\* try? data.write(to:options:) fails: the error is dropped, the file stays
saveFails(i) ==
    /\ workItems[i].state = "running"
    /\ workItems' = [workItems EXCEPT ![i].state = "failed"]
    /\ saving' = {s \in saving : s.item # i}
    /\ UNCHANGED <<now, pendingSave, terminated, file, restores, changedAt>>

\* the process ends; nothing of the program runs any more
terminate ==
    /\ terminated' = TRUE
    /\ UNCHANGED <<file, saving, restores, changedAt>>

\* Button("New Tab", action: { tabModel.newTab() })
AppNewTab ==
    /\ ~terminated
    /\ newTab("about:blank", TRUE) /\ afterEdit
    /\ UNCHANGED <<restores, notAppVars>>

\* Button("Close Tab", action: { tabModel.closeActiveTab() })
AppCloseTab ==
    /\ ~terminated
    /\ closeActiveTab /\ afterEdit
    /\ UNCHANGED <<restores, notAppVars>>

AppSelect ==
    /\ ~terminated
    /\ (\E i \in 1..Len(tabs) : sidebarSelect(i)) /\ afterEdit
    /\ UNCHANGED <<restores, notAppVars>>

AppTogglePinned ==
    /\ ~terminated
    /\ (\E i \in 1..Len(tabs) : togglePinned(tabs[i].id)) /\ afterEdit
    /\ UNCHANGED <<restores, notAppVars>>

AppRestore ==
    /\ ~terminated
    /\ restoreIfNeeded /\ afterEdit
    /\ UNCHANGED notAppVars

AppSaveReadsTabs ==
    /\ ~terminated
    /\ \E i \in 1..Len(workItems) : saveReadsTabs(i)
    /\ UNCHANGED <<tabVars, notAppVars>>

AppSaveWritesFile ==
    /\ ~terminated
    /\ \E i \in 1..Len(workItems) : saveWritesFile(i)
    /\ UNCHANGED <<tabVars, notAppVars>>

AppSaveFails ==
    /\ ~terminated
    /\ \E i \in 1..Len(workItems) : saveFails(i)
    /\ UNCHANGED <<tabVars, notAppVars>>

AppTick ==
    /\ ~terminated
    /\ tick
    /\ UNCHANGED <<tabVars, appVars, notAppVars>>

Terminate ==
    /\ ~terminated
    /\ terminate
    /\ UNCHANGED <<tabVars, sessionVars, notAppVars>>

NextApp ==
    \/ AppNewTab \/ AppCloseTab \/ AppSelect \/ AppTogglePinned \/ AppRestore
    \/ AppSaveReadsTabs \/ AppSaveWritesFile \/ AppSaveFails \/ AppTick

\* restoreIfNeeded alone, with the edits and saves that change the file
NextRestore ==
    \/ AppRestore \/ AppNewTab \/ AppSelect
    \/ AppSaveReadsTabs \/ AppSaveWritesFile \/ AppTick

\* the SessionManager of a process that may end at any moment
NextShutdown ==
    \/ ~terminated /\ ScheduleSave
    \/ ~terminated /\ WorkItemStarts
    \/ ~terminated /\ SaveWrites
    \/ ~terminated /\ Tick
    \/ Terminate

(***************************************************************************)
(* settingsStore                                                           *)
(*                                                                         *)
(* Of Settings the model keeps the keybindings: a function from the        *)
(* actions to their keys.  get_settings and save_settings_command are      *)
(* commands of the backend, which keeps the settings it is given; either   *)
(* command may also reject.                                                *)
(***************************************************************************)
notSettingsVars == <<poolVars, tabVars, blockerVars, sessionVars, storeVars, appVars, viewVars,
    throttleVars, tracerVars>>

\* saveSettings calls in flight at one time
MaxSettingsTasks == 2

\* Keybinding["action"]
KeyActions ==
    {"newTab", "closeTab", "nextTab", "prevTab", "reopenClosed", "focusAddress", "newWindow", "tabSearch"}

\* settings: null, a function that binds no action
NullSettings == [a \in {} |-> Nil]

\* the defaults of loadSettings, which the backend holds at first as well
DefaultKeybindings ==
    [a \in KeyActions |->
        CASE a = "newTab" -> <<"Control", "KeyT">>
          [] a = "closeTab" -> <<"Control", "KeyW">>
          [] a = "nextTab" -> <<"Control", "Tab">>
          [] a = "prevTab" -> <<"Control", "Shift", "Tab">>
          [] a = "reopenClosed" -> <<"Control", "Shift", "KeyT">>
          [] a = "focusAddress" -> <<"Control", "KeyL">>
          [] a = "newWindow" -> <<"Control", "KeyN">>
          [] a = "tabSearch" -> <<"Control", "KeyK">>]

\* the actions the user rebinds and the keys handleStartCapture may capture:
\* the modifiers that are down, then e.key
CapturedActions == {"newTab", "closeTab", "tabSearch"}

CapturedKeys == {<<"Control", "j">>, <<"Control", "Shift", "Tab">>, <<"Alt", "F1">>}

InitSettings ==
    /\ settings = NullSettings
    /\ backendSettings = DefaultKeybindings
    /\ settingsTasks = <<[kind |-> "load"]>>        \* App: useEffect(() => { loadSettings() })

WithoutSettingsTask(i) == SubSeq(settingsTasks, 1, i - 1) \o SubSeq(settingsTasks, i + 1, Len(settingsTasks))

\* loadSettings: get_settings resolves, or rejects and the defaults are used
loadSettingsReturns(i, ok) ==
    /\ settingsTasks[i].kind = "load"
    /\ settings' = IF ok THEN backendSettings ELSE DefaultKeybindings
    /\ settingsTasks' = WithoutSettingsTask(i)
    /\ UNCHANGED backendSettings

\* the keybindings updateKeybinding hands to saveSettings
updatedKeybindings(bindings, action, keys) == [bindings EXCEPT ![action] = keys]

\* updateKeybinding(action, keys), up to saveSettings' await of invoke
updateKeybinding(action, keys) ==
    IF settings = NullSettings
    THEN UNCHANGED settingsVars
    ELSE /\ Len(settingsTasks) < MaxSettingsTasks
         /\ settingsTasks' = Append(settingsTasks,
                [kind |-> "save", settings |-> updatedKeybindings(settings, action, keys)])
         /\ UNCHANGED <<settings, backendSettings>>

\* saveSettings after its await: set({ settings, theme }) when it resolved
saveSettingsReturns(i, ok) ==
    /\ settingsTasks[i].kind = "save"
    /\ settings' = IF ok THEN settingsTasks[i].settings ELSE settings
    /\ backendSettings' = IF ok THEN settingsTasks[i].settings ELSE backendSettings
    /\ settingsTasks' = WithoutSettingsTask(i)

LoadSettingsResolves ==
    (\E i \in 1..Len(settingsTasks) : loadSettingsReturns(i, TRUE)) /\ UNCHANGED notSettingsVars

LoadSettingsRejects ==
    (\E i \in 1..Len(settingsTasks) : loadSettingsReturns(i, FALSE)) /\ UNCHANGED notSettingsVars

UpdateKeybinding ==
    (\E a \in CapturedActions, k \in CapturedKeys : updateKeybinding(a, k)) /\ UNCHANGED notSettingsVars

SaveSettingsResolves ==
    (\E i \in 1..Len(settingsTasks) : saveSettingsReturns(i, TRUE)) /\ UNCHANGED notSettingsVars

SaveSettingsRejects ==
    (\E i \in 1..Len(settingsTasks) : saveSettingsReturns(i, FALSE)) /\ UNCHANGED notSettingsVars

NextSettings ==
    \/ LoadSettingsResolves \/ LoadSettingsRejects \/ UpdateKeybinding
    \/ SaveSettingsResolves \/ SaveSettingsRejects

(***************************************************************************)
(* Web views: WebContext with the ContentBlocker it reads                  *)
(*                                                                         *)
(* A WKWebView keeps the rule lists of the userContentController it was    *)
(* constructed with until someone removes them.  acquireWebView adds the   *)
(* blocker's list to a view it constructs; updateNSView replaces the list  *)
(* of the view it is called for; releaseWebView stops the load and blanks  *)
(* the page.                                                               *)
(***************************************************************************)
notViewVars == <<tabVars, sessionVars, storeVars, appVars, settingsVars, throttleVars, tracerVars>>

\* number of views the model lets acquireWebView construct for the blocker
MaxViews == 2

InitViews ==
    /\ attached = <<>>
    /\ acquired = [handle |-> Nil]

\* if blocker.isEnabled(for: host), let list = blocker.currentRuleList { uc.add(list) }
ruleListFor(host) == IF isEnabled(host) THEN currentRuleList ELSE Nil

\* acquireWebView(blocker:) with the rule list of the view it returns
acquireWithBlocker ==
    /\ reusePool = <<>> => nextHandle < MaxViews
    /\ acquireWebView
    /\ attached' = IF reusePool # <<>> THEN attached                \* return reused
                   ELSE Append(attached, ruleListFor(NilHost))
    /\ LET h == IF reusePool # <<>> THEN acquirePops(reusePool).handle ELSE NewWebView
       IN  acquired' = [handle |-> h, attached |-> attached'[h],
                        enabled |-> enabled, list |-> currentRuleList]

\* updateNSView(_:context:) for the bound view h, its page being at host
updateNSView(h, host) ==
    /\ h \in bound
    /\ attached' = [attached EXCEPT ![h] = ruleListFor(host)]      \* removeAllContentRuleLists(); add
    /\ UNCHANGED acquired

ViewAcquire == acquireWithBlocker /\ UNCHANGED <<blockerVars, notViewVars>>

ViewUpdate ==
    /\ \E h \in bound, host \in {NilHost, "a.com"} : updateNSView(h, host)
    /\ UNCHANGED <<poolVars, blockerVars, notViewVars>>

NextViews ==
    \/ ViewAcquire \/ ViewUpdate \/ ReleaseWebView
    \/ SetEnabled \/ CompileSucceeds \/ CompileFails \/ MainQueueRuns

(***************************************************************************)
(* WebViewCoordinator.throttle                                             *)
(***************************************************************************)
notThrottleVars == <<poolVars, tabVars, blockerVars, sessionVars, storeVars, appVars, settingsVars,
                     viewVars, tracerVars>>

Coordinators == 1..MaxCoordinators

\* makeCoordinator(): webView is nil, isThrottled = false
NewCoordinator == [view |-> "made", webView |-> FALSE, isThrottled |-> FALSE]

InitThrottle ==
    /\ coordinators = [c \in Coordinators |-> NewCoordinator]
    /\ evaluated = <<>>
    /\ throttleCalls = 0
    /\ lastThrottle = [kind |-> "none"]

\* Variant of throttle without the comparison of isThrottled with the target
throttleAlways(co, active) ==
    IF ~co.webView
    THEN [co |-> co, js |-> <<>>]
    ELSE [co |-> [co EXCEPT !.isThrottled = ~active],
          js |-> <<IF active THEN "clearInterval" ELSE "setInterval">>]

\* throttle(active:) on coordinator co: the coordinator afterwards and the
\* scripts given to evaluateJavaScript
throttleResult(co, active) ==
    IF ~co.webView \/ co.isThrottled = ~active      \* guard ... else { return }
    THEN [co |-> co, js |-> <<>>]
    ELSE [co |-> [co EXCEPT !.isThrottled = ~active],
          js |-> <<IF active THEN "clearInterval" ELSE "setInterval">>]

\* the call coordinator.throttle(active:) made on co, the state of coordinator c
throttle(c, co, active) ==
    LET r == throttleResult(co, active) IN
    /\ throttleCalls < MaxThrottleCalls
    /\ coordinators' = [coordinators EXCEPT ![c] = r.co]
    /\ evaluated' = evaluated \o [i \in 1..Len(r.js) |-> [c |-> c, js |-> r.js[i]]]
    /\ throttleCalls' = throttleCalls + 1
    /\ lastThrottle' = [kind |-> "throttle", c |-> c, active |-> active, hadView |-> co.webView]

\* makeNSView: context.coordinator.webView = webView, then throttle(active: isActive)
MakeNSViewThrottles ==
    /\ \E c \in Coordinators, isActive \in BOOLEAN :
          /\ coordinators[c].view = "made"
          /\ throttle(c, [coordinators[c] EXCEPT !.view = "shown", !.webView = TRUE], isActive)
    /\ UNCHANGED notThrottleVars

\* updateNSView: context.coordinator.throttle(active: isActive)
UpdateNSViewThrottles ==
    /\ \E c \in Coordinators, isActive \in BOOLEAN :
          /\ coordinators[c].view = "shown"
          /\ throttle(c, coordinators[c], isActive)
    /\ UNCHANGED notThrottleVars

\* dismantleNSView: coordinator.throttle(active: false)
DismantleNSViewThrottles ==
    /\ \E c \in Coordinators :
          /\ coordinators[c].view = "shown"
          /\ throttle(c, [coordinators[c] EXCEPT !.view = "dismantled"], FALSE)
    /\ UNCHANGED notThrottleVars

\* the web view of a dismantled container is deallocated (the pool did not
\* keep it): the coordinator's weak reference becomes nil
WebViewDeallocated ==
    /\ \E c \in Coordinators :
          /\ coordinators[c].view = "dismantled"
          /\ coordinators[c].webView
          /\ coordinators' = [coordinators EXCEPT ![c].webView = FALSE]
    /\ UNCHANGED <<evaluated, throttleCalls, lastThrottle>>
    /\ UNCHANGED notThrottleVars

\* the tab's container is shown again: makeCoordinator() gives a new coordinator
MakeCoordinator ==
    /\ \E c \in Coordinators :
          /\ coordinators[c].view = "dismantled"
          /\ coordinators' = [coordinators EXCEPT ![c] = NewCoordinator]
    /\ UNCHANGED <<evaluated, throttleCalls, lastThrottle>>
    /\ UNCHANGED notThrottleVars

NextThrottle ==
    \/ MakeNSViewThrottles \/ UpdateNSViewThrottles \/ DismantleNSViewThrottles
    \/ WebViewDeallocated \/ MakeCoordinator

(***************************************************************************)
(* PerformanceTracer and the navigation delegate                           *)
(***************************************************************************)
notTracerVars == <<poolVars, tabVars, blockerVars, sessionVars, storeVars, appVars, settingsVars,
                   viewVars, throttleVars>>

InitTracer ==
    /\ navigation = [t \in Coordinators |-> "idle"]
    /\ signposts = [t \in Coordinators |-> <<>>]
    /\ startTimes = {}

\* load(urlString:in:) returns without a request for "" and "about:blank"
loadable(urlString) == urlString # "" /\ urlString # "about:blank"

\* pageRequested(tabId:): startTimes[tabId] is set, PageLoad begins
pageRequested(t) ==
    /\ startTimes' = startTimes \cup {t}
    /\ signposts' = [signposts EXCEPT ![t] = Append(@, "begin")]

\* pageStarted(tabId:): the Provisional event
pageStarted(t) ==
    /\ signposts' = [signposts EXCEPT ![t] = Append(@, "Provisional")]
    /\ UNCHANGED startTimes

\* pageFinished(tabId:): PageLoad ends, startTimes[tabId] is removed
pageFinished(t) ==
    /\ signposts' = [signposts EXCEPT ![t] = Append(@, "end")]
    /\ startTimes' = startTimes \ {t}

\* load(urlString:in:), called by makeNSView and updateNSView: pageRequested,
\* then webView.load(req), which replaces a navigation still under way
Load ==
    /\ \E t \in Coordinators, urlString \in UrlStrings :
          IF loadable(urlString)
          THEN /\ Len(signposts[t]) < MaxSignposts
               /\ pageRequested(t)
               /\ navigation' = [navigation EXCEPT ![t] = "requested"]
          ELSE UNCHANGED tracerVars
    /\ UNCHANGED notTracerVars

\* webView(_:didStartProvisionalNavigation:)
DidStartProvisionalNavigation ==
    /\ \E t \in Coordinators :
          /\ navigation[t] = "requested"
          /\ Len(signposts[t]) < MaxSignposts
          /\ pageStarted(t)
          /\ navigation' = [navigation EXCEPT ![t] = "provisional"]
    /\ UNCHANGED notTracerVars

\* webView(_:didFinish:)
DidFinish ==
    /\ \E t \in Coordinators :
          /\ navigation[t] = "provisional"
          /\ Len(signposts[t]) < MaxSignposts
          /\ pageFinished(t)
          /\ navigation' = [navigation EXCEPT ![t] = "idle"]
    /\ UNCHANGED notTracerVars

\* the navigation fails (didFail / didFailProvisionalNavigation): the
\* coordinator implements neither method, nothing is traced
NavigationFails ==
    /\ \E t \in Coordinators :
          /\ navigation[t] # "idle"
          /\ navigation' = [navigation EXCEPT ![t] = "idle"]
    /\ UNCHANGED <<signposts, startTimes>>
    /\ UNCHANGED notTracerVars

NextTracer == Load \/ DidStartProvisionalNavigation \/ DidFinish \/ NavigationFails

(***************************************************************************)
(* Specifications                                                          *)
(***************************************************************************)
\* the program at launch, whatever the session file holds
InitAtLaunch ==
    /\ InitPool /\ InitTabs /\ InitBlocker /\ InitSession /\ InitStore /\ InitApp
    /\ InitSettings /\ InitViews /\ InitThrottle /\ InitTracer

\* the program at launch with no session file
Init == InitAtLaunch /\ file = Missing

SpecPool == Init /\ [][NextPool]_vars

SpecTabs == Init /\ [][NextTabs]_vars

SpecDuplicate == Init /\ [][NextDuplicate]_vars
SpecEdits == Init /\ [][NextEdits]_vars

SpecBlocker == Init /\ [][NextBlocker]_vars

SpecSession == Init /\ [][NextSession]_vars

SpecLifo == Init /\ [][NextLifo]_vars
SpecStore == Init /\ [][NextStore]_vars

SpecApp == InitAtLaunch /\ [][NextApp]_vars

SpecRestore == InitAtLaunch /\ [][NextRestore]_vars

SpecShutdown == Init /\ [][NextShutdown]_vars

SpecThrottle == Init /\ [][NextThrottle]_vars

SpecTracer == Init /\ [][NextTracer]_vars

SpecSettings == Init /\ [][NextSettings]_vars

SpecViews == Init /\ [][NextViews]_vars

(***************************************************************************)
(* Properties                                                              *)
(***************************************************************************)
\* C1: the free list (reusePool) never holds more than maxPoolSize handles,
\* whatever sequence of prewarmIfNeeded, acquireWebView and releaseWebView ran.
C1_PoolBounded == Len(reusePool) <= maxPoolSize

\* C1 witness: in a run that released bound handles only, the free list is
\* full and some handle is neither bound, nor prewarmed, nor in the free
\* list: releaseWebView met the capacity guard and dropped it.
C1_Witness ==
    /\ ~poolMisuse
    /\ Len(reusePool) = maxPoolSize
    /\ \E h \in 1..nextHandle :
          /\ h \notin bound
          /\ h # prewarmed
          /\ \A i \in 1..Len(reusePool) : reusePool[i] # h

\* C2: as long as releaseWebView was only ever called on bound handles,
\* acquireWebView has never returned a handle that was still bound, and no
\* handle of the free list is bound.
C2_NoDoubleBind ==
    ~poolMisuse => (~doubleBound /\ \A i \in 1..Len(reusePool) : reusePool[i] \notin bound)

\* C2 witness: a disciplined run in which a handle was reused from the free
\* list while another handle was bound.
C2_Witness == ~poolMisuse /\ lastAcquire = "reused" /\ Cardinality(bound) >= 2

\* C3: activeTabID is the id of exactly one element of tabs, after any
\* sequence of the TabModel operations and the sidebar's edits.
C3_ActiveIsOneTab == Cardinality({i \in 1..Len(tabs) : tabs[i].id = activeTabID}) = 1

\* C3 witness: the sidebar removed a non-active tab directly from tabs and
\* other tabs remain.
C3_Witness == tabOp = "sidebarClose" /\ Len(tabs) >= 2

C6_CloseSelectsNext ==
    [][(tabOp' = "closeActiveTab" /\ Len(tabs) >= 2 /\ activeIndex # Nil) =>
          LET i == activeIndex IN
          /\ tabs' = RemoveAt(tabs, i)
          /\ activeTabID' = IF i < Len(tabs) THEN tabs[i + 1].id ELSE tabs'[Len(tabs')].id]_vars

\* C6 witness: the active tab was closed, two tabs remain and the active one
\* is the first, so a tab with a successor was closed.
C6_Witness == tabOp = "closeActiveTab" /\ Len(tabs) = 2 /\ activeTabID = tabs[1].id

\* C8: when a compile was started while an earlier one was undelivered, then
\* once every completion block has run (and blocking is still enabled)
\* currentRuleList is what the compile started last delivered, never what an
\* earlier compile delivered.
C8_LastCompileWins ==
    (enabled /\ overlapped /\ compiling = {} /\ mainQueue = <<>>) => currentRuleList = results[issued]

\* C9: a completion block of a failed compile (it delivers no list) that runs
\* while currentRuleList holds the list of an earlier compile leaves
\* currentRuleList as it was.
C9_FailureKeepsPrevious ==
    [][(/\ mainQueue # <<>>
        /\ mainQueue' = Tail(mainQueue)
        /\ Head(mainQueue).list = Nil
        /\ currentRuleList # Nil
        /\ Head(mainQueue).compile > currentRuleList) => currentRuleList' = currentRuleList]_vars

C4_ActiveInTabs ==
    store.tabs # <<>> => \E k \in 1..Len(store.tabs) : store.tabs[k].id = store.activeTabId

\* C7: after closeTab and then reopenClosedTab, once every async call and
\* timer they started has finished, tabs holds a tab with the url and the
\* pinned value the closed tab had.
C7_ReopenRestores ==
    (roundTrip.phase = "reopened" /\ tasks = <<>>) =>
        \E k \in 1..Len(store.tabs) :
            store.tabs[k].url = roundTrip.url /\ store.tabs[k].pinned = roundTrip.pinned

\* C11: when the process ends while a work item of scheduleSave is scheduled
\* and not cancelled, its snapshot has been written: no such item is left.
C11_ShutdownFlushes ==
    terminated => \A i \in 1..Len(workItems) :
                      ~(workItems[i].state = "scheduled" /\ ~workItems[i].cancelled)

\* C12: once tabs and activeTabID have not changed for the quiet interval,
\* every work item has finished and no write failed, the session file holds
\* the snapshot of the current tabs and the current activeTabID.
C12_QuiescentPersisted ==
    (/\ changedAt # NoChange
     /\ now >= changedAt + QuietTicks
     /\ saving = {}
     /\ \A i \in 1..Len(workItems) : workItems[i].state \in {"written", "skipped"})
    => file = Snapshot(tabs, activeTabID)

\* C13: a restoreIfNeeded step leaves tabs and activeTabID as they were when
\* the file is missing or does not decode, and sets both to the values of the
\* snapshot when the file decodes.
C13_Restore ==
    [][Len(restores') > Len(restores) =>
          IF file.kind = "snapshot"
          THEN tabs' = file.tabs /\ activeTabID' = file.active
          ELSE tabs' = tabs /\ activeTabID' = activeTabID]_vars

\* C13 witness: restoreIfNeeded ran on a file that does not decode and kept
\* the single blank tab, later it ran on a decodable file whose snapshot it
\* installed, the active id included.
C13_Witness ==
    /\ restores = <<"kept", "replaced">>
    /\ tabOp = "restore"
    /\ file = Snapshot(tabs, activeTabID)
    /\ changedAt = now
    /\ Len(tabs) = 2

\* C18: the active id of the snapshot that save wrote is the id of one of
\* the snapshot's tabs, the snapshot being the TabModel of one instant.
C18_SnapshotOfOneInstant ==
    file.kind = "snapshot" => \E k \in 1..Len(file.tabs) : file.tabs[k].id = file.active

\* C14: a toggleSite(host: h) step that directly follows a toggleSite call
\* with the same host, or with a host that differs from h in letter case
\* only, leaves disabledHosts as it was before the first of the two calls,
\* and isEnabled(for: h) answers as it did before the first call.
C14_ToggleTwice ==
    [][(/\ lastToggle.kind = "toggle"
        /\ lastToggle'.kind = "toggle"
        /\ lastToggle' # lastToggle
        /\ lowercased(lastToggle'.host) = lowercased(lastToggle.host)) =>
          /\ disabledHosts' = lastToggle.before
          /\ \A h \in HostArgs :
                lowercased(h) = lowercased(lastToggle.host) => isEnabled(h)' = lastToggle.was]_vars

\* C14 witness: toggleSite(host: "a.com") was followed at once by
\* toggleSite(host: "A.com"), and a.com is again not an exception, while
\* b.com, an exception before the two calls, still is.
C14_Witness ==
    /\ lastToggle.kind = "toggle"
    /\ lastToggle.prevHost = "a.com" /\ lastToggle.host = "A.com"
    /\ lastToggle.before = {"a.com", "b.com"}
    /\ disabledHosts = {"b.com"}

\* C15: isEnabled(for: h) is true exactly when enabled is true and the
\* lowercased h is not in disabledHosts (a nil host is in no set), and a step
\* that changes enabled leaves disabledHosts as it was.
C15_IsEnabled ==
    /\ [](\A h \in HostArgs :
            isEnabled(h) = (enabled /\ (h = NilHost \/ lowercased(h) \notin disabledHosts)))
    /\ [][enabled' # enabled => disabledHosts' = disabledHosts]_vars

\* C15 witness: blocking was switched off while a.com was an exception; the
\* exception is still there and isEnabled answers false for every host.
C15_Witness ==
    /\ ~enabled
    /\ lastToggle.kind = "none"
    /\ disabledHosts = {"a.com"}
    /\ \A h \in HostArgs : ~isEnabled(h)

\* the step leaves activeTabID and every tab as they were, except that the
\* given field of the first tab with the given id now has the given value;
\* with no such tab it leaves tabs and activeTabID as they were
OnlyFieldChanged(id, field, value) ==
    LET idx == firstIndex(tabs, id) IN
    /\ activeTabID' = activeTabID
    /\ Len(tabs') = Len(tabs)
    /\ \A k \in 1..Len(tabs) :
          IF k # idx THEN tabs'[k] = tabs[k]
          ELSE \A f \in {"id", "urlString", "title", "isPinned", "isReader"} : tabs'[k][f] = IF f = field THEN value ELSE tabs[k][f]

\* the value of the field of the first tab with the given id, negated
Negated(id, field) ==
    IF firstIndex(tabs, id) = Nil THEN FALSE ELSE ~tabs[firstIndex(tabs, id)][field]

\* C16: a step of setURL, setTitle, togglePinned or toggleReader with an id
\* that no tab has leaves tabs and activeTabID unchanged; with the id of a
\* tab it changes the named field of that tab and nothing else.
C16_MutatorsFrame ==
    [][tabOp' = "edit" => \A id \in TabIdArgs :
          /\ \A u \in UrlStrings : setURL(u, id) => OnlyFieldChanged(id, "urlString", u)
          /\ \A t \in Titles : setTitle(t, id) => OnlyFieldChanged(id, "title", t)
          /\ togglePinned(id) => OnlyFieldChanged(id, "isPinned", Negated(id, "isPinned"))
          /\ toggleReader(id) => OnlyFieldChanged(id, "isReader", Negated(id, "isReader"))]_vars

\* C16 witness: the four mutators have acted on the second of two tabs, which
\* is not the active one, and the first tab is still a blank tab.
C16_Witness ==
    /\ tabOp = "edit"
    /\ Len(tabs) = 2
    /\ activeTabID = tabs[1].id
    /\ tabs[1] = BlankTab(tabs[1].id)
    /\ tabs[2].urlString = "https://a.com" /\ tabs[2].title = "A"
    /\ tabs[2].isPinned /\ tabs[2].isReader

\* C17: no two different actions of the settings store's keybindings have
\* the same keys.
C17_NoKeyConflict ==
    settings # NullSettings => \A a, b \in KeyActions : a # b => settings[a] # settings[b]

\* C19: while enabled is false, currentRuleList is nil, whatever completion
\* blocks of earlier compiles run in the meantime.
C19_NilWhileDisabled == ~enabled => currentRuleList = Nil

\* C20: the view acquireWebView returned had the blocker's current rule list
\* attached if blocking was enabled and a list was there at the call, and no
\* rule list otherwise, be the view new or reused.
C20_AcquiredHasCurrentRules ==
    acquired.handle # Nil =>
        acquired.attached = (IF acquired.enabled THEN acquired.list ELSE Nil)

\* C21: the free list never holds the same handle twice, so two acquireWebView
\* calls cannot pop the same handle, also when releaseWebView is called again
\* for a handle that is already in the free list.
C21_NoDuplicateInPool ==
    \A i, j \in 1..Len(reusePool) : i # j => reusePool[i] # reusePool[j]

\* C22: an acquireWebView step taken with an empty free list while a
\* prewarmed handle exists returns the prewarmed handle and constructs nothing.
C22_PrewarmedIsUsed ==
    [][(prewarmed # Nil /\ reusePool = <<>> /\ bound' # bound /\ bound \subseteq bound')
          => (bound' = bound \cup {prewarmed} /\ nextHandle' = nextHandle)]_vars

\* C23: prewarmIfNeeded never replaces a prewarmed handle it has constructed,
\* and a call made while a prewarmed handle exists leaves the prewarmed
\* handle, the free list and the number of constructed views unchanged.
C23_PrewarmIdempotent ==
    [][prewarmed # Nil =>
          /\ prewarmed' = prewarmed
          /\ prewarmCalls' # prewarmCalls =>
                (reusePool' = reusePool /\ nextHandle' = nextHandle /\ bound' = bound)]_vars

\* C23 witness: prewarmIfNeeded was called three times while views were
\* acquired and released; the prewarmed handle is the one its first call
\* constructed, before any other view, and the free list holds a view.
C23_Witness ==
    /\ prewarmCalls = 3
    /\ prewarmed = 1
    /\ nextHandle >= 2
    /\ Len(reusePool) >= 1

\* C24: a restoreIfNeeded step that is not the first of the run leaves tabs
\* and activeTabID as they were.
C24_RestoreOnce ==
    [][(Len(restores) >= 1 /\ Len(restores') > Len(restores))
          => (tabs' = tabs /\ activeTabID' = activeTabID)]_vars

\* the step in which the closeTab call held by task i resumes after its await
closeTabReturned(i) == tasks[i].kind = "closeTab" /\ tasks' = WithoutTask(i)

\* C25: when closeTab(id) completes, the tabs of the store are the tabs it
\* held just before without the closed one: the tab is gone, and no tab that
\* another operation added or closed during the await comes back or is lost.
C25_CloseKeepsOthers ==
    [][\A i \in 1..Len(tasks) : closeTabReturned(i) =>
           StoreTabIds' = StoreTabIds \ {tasks[i].id}]_vars

\* C26: after a closeTab / reopenClosedTab pair, once every async call and
\* timer has finished, tabs holds exactly one tab more than before the
\* reopen, and closedTabs exactly one entry less.
C26_ReopenAddsOne ==
    (roundTrip.phase = "reopened" /\ tasks = <<>>) =>
        /\ Len(store.tabs) = roundTrip.tabsBefore + 1
        /\ Len(store.closedTabs) = roundTrip.closedBefore - 1

\* C27: reopenClosedTab takes the tab closed last: it appends the last entry
\* of closedTabs to tabs, makes it active and removes it from closedTabs; a
\* closeTab that resumes on the state it read puts its tab last in
\* closedTabs.  With closedTabs empty there is no reopen step.  A reopen step
\* is the one that starts the addTab carrying reopenClosedTab's .then.
C27_ReopenLifo ==
    [][/\ (/\ Len(tasks') = Len(tasks) + 1
           /\ Last(tasks').kind = "addTab"
           /\ Last(tasks').after.name = "reopen") =>
            /\ store.closedTabs # <<>>
            /\ store'.tabs = Append(store.tabs, Last(store.closedTabs))
            /\ store'.activeTabId = Last(store.closedTabs).id
            /\ store'.closedTabs = SubSeq(store.closedTabs, 1, Len(store.closedTabs) - 1)
       /\ \A i \in 1..Len(tasks) :
            (closeTabReturned(i) /\ tasks[i].state = store) =>
                store'.closedTabs = Append(store.closedTabs, tasks[i].tab)]_vars

\* two tabs closed in the order 1, 2 and both reopened: 2 came back first
C27_Witness ==
    /\ Len(store.tabs) = 2 /\ store.tabs[1].id = 2 /\ store.tabs[2].id = 1
    /\ store.activeTabId = 1
    /\ store.closedTabs = <<>>
    /\ Len(tasks) = 2
    /\ \A i \in 1..2 : tasks[i].kind = "addTab" /\ tasks[i].after.name = "reopen"
    /\ nextId = 2

\* C28: a duplicateActive step with an active tab at position idx makes the
\* list one longer; the tab at idx + 1 is new, its id is the id of no earlier
\* tab, its url and pinned state are those of the active tab, and it is the
\* active tab afterwards; the tabs up to idx and those after it are the old
\* ones in their old order.
C28_DuplicateActive ==
    [][(tabOp' = "duplicateActive" /\ activeIndex # Nil) =>
          LET idx == activeIndex IN
          /\ Len(tabs') = Len(tabs) + 1
          /\ \A k \in 1..Len(tabs) : tabs'[idx + 1].id # tabs[k].id
          /\ tabs'[idx + 1].urlString = tabs[idx].urlString
          /\ tabs'[idx + 1].isPinned = tabs[idx].isPinned
          /\ activeTabID' = tabs'[idx + 1].id
          /\ \A k \in 1..idx : tabs'[k] = tabs[k]
          /\ \A k \in (idx + 1)..Len(tabs) : tabs'[k + 1] = tabs[k]]_vars

\* the first of two tabs, pinned and at https://a.com, was duplicated
C28_Witness ==
    /\ tabOp = "duplicateActive"
    /\ Len(tabs) = 3
    /\ tabs[1].id = 1 /\ tabs[2].id = 3 /\ tabs[3].id = 2
    /\ tabs[1].isPinned /\ tabs[2].isPinned /\ ~tabs[3].isPinned
    /\ tabs[1].urlString = "https://a.com" /\ tabs[2].urlString = "https://a.com"
    /\ tabs[3].urlString = "about:blank"
    /\ activeTabID = 3

\* C29: a throttle(active:) call whose target ~active is the coordinator's
\* isThrottled already evaluates no script and leaves isThrottled alone, and
\* after a call made while the web view exists isThrottled is ~active.
C29_ThrottleIdempotent ==
    [][throttleCalls' # throttleCalls =>
          LET c == lastThrottle'.c
              active == lastThrottle'.active
          IN  /\ coordinators[c].isThrottled = ~active =>
                    /\ evaluated' = evaluated
                    /\ coordinators'[c].isThrottled = coordinators[c].isThrottled
              /\ lastThrottle'.hadView => coordinators'[c].isThrottled = ~active]_vars

\* three calls throttle(active: false) on coordinator 1 while its view
\* exists: one script was evaluated
C29_Witness ==
    /\ throttleCalls = 3
    /\ lastThrottle = [kind |-> "throttle", c |-> 1, active |-> FALSE, hadView |-> TRUE]
    /\ coordinators[1].view = "shown"
    /\ coordinators[1].isThrottled
    /\ evaluated = <<[c |-> 1, js |-> "setInterval"]>>

\* C30: among the signposts of one tab, between two begins of PageLoad
\* there is an end of PageLoad.
C30_SpansPaired ==
    \A t \in Coordinators :
        \A i, j \in 1..Len(signposts[t]) :
            (i < j /\ signposts[t][i] = "begin" /\ signposts[t][j] = "begin") =>
                \E k \in (i + 1)..(j - 1) : signposts[t][k] = "end"

====
